---- MODULE Spec2Model ----
(***************************************************************************)
(* Model of the pull-request review workflow of github_ai_coder:           *)
(*   src/lambda/handler.py      the step handler and its three steps       *)
(*   src/lambda/utils.py        the second implementation of the steps     *)
(*   src/lambda/api_handler.py  the request gateway                        *)
(* Python dictionaries are records whose DOMAIN is the set of keys that    *)
(* are present; texts that the code concatenates and strips are sequences  *)
(* of one-character strings; other strings are TLA+ strings.               *)
(***************************************************************************)
EXTENDS Integers, Sequences, FiniteSets, TLC

VARIABLES gen, post, step, orch, record, handoff, comments, world, api,
          metrics

vars == <<gen, post, step, orch, record, handoff, comments, world, api,
          metrics>>

\* Longest list of file changes / review entries that is enumerated.
MaxFiles == 2

\* Most status polls that are counted.
MaxPolls == 2

---------------------------------------------------------------------------
(* Python values                                                           *)

None == "<None>"

BEDROCK_MODEL_ID == "anthropic.claude-3-5-sonnet-20240620-v1:0"

Has(d, k) == k \in DOMAIN d

Get(d, k, default) == IF k \in DOMAIN d THEN d[k] ELSE default

\* An element of a list that is not a dict (a string, a pydantic model, ...).
NonDict == [nondict |-> TRUE]

IsDict(x) == ~ Has(x, "nondict")

\* No call has been made yet.
Idle == [impl |-> "none"]

\* Truthiness of an optional string: None and "" are falsy.
Truthy(s) == s \notin {None, ""}

\* Dynamically typed values carry their Python type in field t.
PyStr(v) == [t |-> "str", json |-> v]

BadStr == [t |-> "str", bad |-> TRUE]

PyDict(d) == [t |-> "dict", v |-> d]

PyList(l) == [t |-> "list", v |-> l]

PyNone == [t |-> "NoneType"]

PyInt(n) == [t |-> "int", n |-> n]

\* int(x): an int, or a string of digits; BadStr is no number.
IntLike(x) == x.t = "int"

\* json.dumps / json.loads: the text of a value, and back; BadStr is a
\* string that is not JSON.
Dumps(v) == PyStr(v)

IsJson(s) == s.t = "str" /\ Has(s, "json")

Loads(s) == s.json

\* str.strip() on a sequence of characters.
WS == {" ", "\n"}

RECURSIVE LStrip(_)
LStrip(s) ==
    IF s # <<>> /\ Head(s) \in WS THEN LStrip(Tail(s)) ELSE s

RECURSIVE RStrip(_)
RStrip(s) ==
    IF s # <<>> /\ s[Len(s)] \in WS THEN RStrip(SubSeq(s, 1, Len(s) - 1)) ELSE s

Strip(s) == RStrip(LStrip(s))

---------------------------------------------------------------------------
(* The inference capability: what bedrock.invoke_model can answer          *)

SdkError == [kind |-> "sdk_error"]

BadJsonBody == [kind |-> "bad_json"]

Payload(p) == [kind |-> "payload", payload |-> p]

Unused == [kind |-> "unused"]

TextPart(s) == [type |-> "text", text |-> s]

Responses ==
    { SdkError, BadJsonBody,
      Payload([stop_reason |-> "end_turn"]),
      Payload([content |-> <<>>]),
      Payload([content |-> <<TextPart(<<" ">>)>>]),
      Payload([content |-> <<[type |-> "tool_use"]>>]),
      Payload([content |-> <<[type |-> "text"]>>]),
      Payload([content |-> <<TextPart(<<"o", "k", " ">>)>>]),
      Payload([content |-> <<TextPart(<<" ", "a">>), TextPart(<<"b">>)>>]) }

---------------------------------------------------------------------------
(* Review Generator, src/lambda/utils.py                                   *)

\* What one call of a generator gives: the list it returns, or the
\* exception it raises, and the positions it called invoke_model for.
Returned(reviews, invoked) ==
    [raised |-> FALSE, exc |-> None, reviews |-> reviews, invoked |-> invoked]

Raised(exc, invoked) ==
    [raised |-> TRUE, exc |-> exc, reviews |-> <<>>, invoked |-> invoked]

FailedReview(filename, msg) ==
    [file |-> filename, error |-> msg, status |-> "failed"]

\* if not x: None, an empty list and an empty dict are falsy; the strings
\* of the model (a JSON text, BadStr) are never empty.
Falsy(x) ==
    \/ x.t = "NoneType"
    \/ x.t = "list" /\ x.v = <<>>
    \/ x.t = "dict" /\ DOMAIN x.v = {}

\* for part in parts: if part.get('type') == 'text' and part.get('text')
RECURSIVE UtilsText(_)
UtilsText(parts) ==
    IF parts = <<>> THEN <<>>
    ELSE LET part == Head(parts)
             piece == IF Get(part, "type", None) = "text" /\ Has(part, "text")
                         /\ part.text # <<>>
                      THEN part.text ELSE <<>>
         IN piece \o UtilsText(Tail(parts))

\* The try block for one file that has a patch.
UtilsReview(filename, resp) ==
    IF resp.kind = "sdk_error"
    THEN FailedReview(filename,
             "Bedrock SDK error for " \o filename \o ": ClientError")
    ELSE IF resp.kind = "bad_json"
    THEN FailedReview(filename,
             "Invalid response format for " \o filename \o ": Expecting value")
    ELSE LET text == UtilsText(Get(resp.payload, "content", <<>>))
         IN IF Strip(text) = <<>>
            THEN FailedReview(filename,
                     "Invalid response format for " \o filename
                         \o ": Empty review text from Bedrock")
            ELSE [file |-> filename, review |-> Strip(text),
                  status |-> "succeeded", model |-> BEDROCK_MODEL_ID]

UtilsSkipped(filename) ==
    [file |-> filename, error |-> "no patch content", status |-> "skipped"]

\* for idx, change in enumerate(changes, start=1)
RECURSIVE UtilsLoop(_, _, _, _)
UtilsLoop(changes, responses, idx, acc) ==
    IF idx > Len(changes) THEN acc
    ELSE LET change == changes[idx] IN
         IF ~ IsDict(change)
         THEN Raised("AttributeError", acc.invoked)
         ELSE LET filename == Get(change, "filename", "file_" \o ToString(idx))
                  patch == Get(change, "patch", None)
              IN IF ~ Truthy(patch)
                 THEN UtilsLoop(changes, responses, idx + 1,
                          Returned(Append(acc.reviews, UtilsSkipped(filename)),
                                   acc.invoked))
                 ELSE UtilsLoop(changes, responses, idx + 1,
                          Returned(Append(acc.reviews,
                                          UtilsReview(filename, responses[idx])),
                                   acc.invoked \cup {idx}))

\* generate_review_with_bedrock(changes). Iterating a dict or a string
\* gives strings, and the first .get on one raises.
UtilsGenerate(changes, responses) ==
    IF Falsy(changes) THEN Returned(<<>>, {})
    ELSE IF changes.t # "list" THEN Raised("AttributeError", {})
    ELSE UtilsLoop(changes.v, responses, 1, Returned(<<>>, {}))

---------------------------------------------------------------------------
(* Review Generator, src/lambda/handler.py                                 *)

\* for content in response_body['content']: content['text'] of a text part
\* without that key raises KeyError.
RECURSIVE HandlerText(_)
HandlerText(parts) ==
    IF parts = <<>> THEN [err |-> None, text |-> <<>>]
    ELSE LET part == Head(parts) IN
         IF ~ Has(part, "type") THEN [err |-> "'type'", text |-> <<>>]
         ELSE IF part.type # "text"
         THEN HandlerText(Tail(parts))
         ELSE IF ~ Has(part, "text") THEN [err |-> "'text'", text |-> <<>>]
         ELSE LET rest == HandlerText(Tail(parts)) IN
              [err |-> rest.err, text |-> part.text \o <<"\n">> \o rest.text]

HandlerUnexpected(filename, what) ==
    FailedReview(filename,
        "Unexpected error processing " \o filename \o ": " \o what)

\* Mutant: a review text that is blank is not refused.
HandlerReviewKeepsBlank(change, filename, resp) ==
    IF resp.kind = "sdk_error"
    THEN FailedReview(filename,
             "Bedrock API error for " \o filename \o ": ClientError")
    ELSE IF resp.kind = "bad_json"
    THEN HandlerUnexpected(filename, "Expecting value")
    ELSE IF ~ Has(resp.payload, "content") \/ resp.payload.content = <<>>
    THEN HandlerUnexpected(filename, "No content in Bedrock response")
    ELSE LET got == HandlerText(resp.payload.content) IN
         IF got.err # None THEN HandlerUnexpected(filename, got.err)
         ELSE [file |-> filename, review |-> Strip(got.text),
               status |-> Get(change, "status", "reviewed"),
               model |-> BEDROCK_MODEL_ID]

\* The part of the try block that follows the patch test, for one file.
HandlerReview(change, filename, resp) ==
    IF resp.kind = "sdk_error"
    THEN FailedReview(filename,
             "Bedrock API error for " \o filename \o ": ClientError")
    ELSE IF resp.kind = "bad_json"
    THEN HandlerUnexpected(filename, "Expecting value")
    ELSE IF ~ Has(resp.payload, "content") \/ resp.payload.content = <<>>
    THEN HandlerUnexpected(filename, "No content in Bedrock response")
    ELSE LET got == HandlerText(resp.payload.content) IN
         IF got.err # None THEN HandlerUnexpected(filename, got.err)
         ELSE IF Strip(got.text) = <<>>
         THEN HandlerUnexpected(filename, "Empty review content from Bedrock")
         ELSE [file |-> filename, review |-> Strip(got.text),
               status |-> Get(change, "status", "reviewed"),
               model |-> BEDROCK_MODEL_ID]

\* for index, change in enumerate(changes, start=1)
RECURSIVE HandlerLoop(_, _, _, _)
HandlerLoop(changes, responses, index, acc) ==
    IF index > Len(changes) THEN acc
    ELSE LET change == changes[index] IN
         IF ~ IsDict(change)
         THEN HandlerLoop(changes, responses, index + 1, acc)
         ELSE LET filename ==
                      Get(change, "filename", "unknown_file_" \o ToString(index))
              IN IF ~ Has(change, "patch") \/ ~ Truthy(change.patch)
                 THEN HandlerLoop(changes, responses, index + 1, acc)
                 ELSE HandlerLoop(changes, responses, index + 1,
                          Returned(Append(acc.reviews,
                                       HandlerReview(change, filename,
                                                     responses[index])),
                                   acc.invoked \cup {index}))

CriticalReview(what) ==
    [error |-> "Failed to process reviews: " \o what, status |-> "failed"]

\* generate_review_with_bedrock(changes_data)
HandlerGenerate(changes_data, responses) ==
    LET parsed ==
            IF changes_data.t = "str"
            THEN IF ~ IsJson(changes_data) THEN [stop |-> Returned(<<>>, {})]
                 ELSE IF Loads(changes_data).t # "dict"
                 THEN [stop |-> Returned(
                          <<CriticalReview("object has no attribute 'get'")>>, {})]
                 ELSE [changes |-> Get(Loads(changes_data).v, "changes",
                                       PyList(<<>>))]
            ELSE IF changes_data.t = "dict"
            THEN [changes |-> Get(changes_data.v, "changes", PyList(<<>>))]
            ELSE [stop |-> Returned(<<>>, {})]
    IN IF Has(parsed, "stop") THEN parsed.stop
       ELSE IF parsed.changes.t # "list" \/ parsed.changes.v = <<>>
       THEN Returned(<<>>, {})
       ELSE HandlerLoop(parsed.changes.v, responses, 1, Returned(<<>>, {}))

---------------------------------------------------------------------------
(* Credential and clients                                                  *)

\* get_github_token(): the key GITHUB_TOKEN of the secret, "" when the key
\* is missing and "" when the retrieval or the parsing raises.
Secrets == {"ok", "no_key", "error"}

GetGithubToken(secret) == IF secret = "ok" THEN "ghp_token" ELSE ""

\* Mutant: the client is built from whatever token there is.
UtilsInitTakesAnyToken(secret) == FALSE

\* initialize_clients() of utils.py: raises when the token is empty.
UtilsInitFails(secret) == GetGithubToken(secret) = ""

\* initialize_clients() of handler.py, run when the module is loaded.
HandlerInitFails(secret) == GetGithubToken(secret) = ""

---------------------------------------------------------------------------
(* Comment Publisher                                                       *)

\* What one call of a publisher gives: the tally it returns or the
\* exception it raises, whether the pull request had been located by then,
\* and the comments it posted.
PostReturned(tally, posted) ==
    [raised |-> FALSE, exc |-> None, located |-> TRUE,
     tally |-> tally, posted |-> posted]

PostRaised(exc, located, posted) ==
    [raised |-> TRUE, exc |-> exc, located |-> located,
     tally |-> [successful_posts |-> 0, failed_posts |-> 0], posted |-> posted]

\* The loop state: success, fail, the comments posted so far.
Tally0 == [success |-> 0, fail |-> 0, posted |-> <<>>, exc |-> None]

\* Mutant: an entry that is skipped is not counted.
CountFailedForgets(acc) == acc

CountFailed(acc) == [acc EXCEPT !.fail = @ + 1]

CountPosted(acc, body) ==
    [acc EXCEPT !.success = @ + 1, !.posted = Append(@, body)]

\* utils.py: if 'error' in r or not r.get('review')
UtilsSkips(r) == Has(r, "error") \/ ~ Has(r, "review") \/ r.review = <<>>

\* utils.py: for r in reviews_list. An element that is no dict raises at
\* r.get, a failing create_review raises GithubException; neither is caught.
RECURSIVE UtilsPostLoop(_, _, _, _)
UtilsPostLoop(reviews, fails, i, acc) ==
    IF i > Len(reviews) THEN acc
    ELSE LET r == reviews[i] IN
         IF ~ IsDict(r) THEN [acc EXCEPT !.exc = "AttributeError"]
         ELSE IF UtilsSkips(r)
         THEN UtilsPostLoop(reviews, fails, i + 1, CountFailed(acc))
         ELSE IF fails[i] THEN [acc EXCEPT !.exc = "GithubException"]
         ELSE UtilsPostLoop(reviews, fails, i + 1, CountPosted(acc, r.review))

\* utils.py: post_review_comments(repo_name, pr_number, owner, reviews)
UtilsPost(reviews, env) ==
    IF UtilsInitFails(env.secret) THEN PostRaised("PRReviewError", FALSE, <<>>)
    ELSE IF ~ env.known THEN PostRaised("GithubException", FALSE, <<>>)
    ELSE IF reviews.t # "str" THEN PostRaised("TypeError", TRUE, <<>>)
    ELSE IF ~ IsJson(reviews) THEN PostRaised("JSONDecodeError", TRUE, <<>>)
    ELSE LET parsed == Loads(reviews)
             found ==
                 IF parsed.t = "dict" /\ Has(parsed.v, "reviews")
                 THEN [list |-> parsed.v.reviews]
                 ELSE IF parsed.t = "list" THEN [list |-> parsed]
                 ELSE [bad |-> TRUE]
         IN IF Has(found, "bad") THEN PostRaised("PRReviewError", TRUE, <<>>)
            ELSE IF found.list.t # "list" THEN PostRaised("TypeError", TRUE, <<>>)
            ELSE LET acc == UtilsPostLoop(found.list.v, env.fails, 1, Tally0)
                 IN IF acc.exc # None THEN PostRaised(acc.exc, TRUE, acc.posted)
                    ELSE PostReturned([successful_posts |-> acc.success,
                                       failed_posts |-> acc.fail], acc.posted)

\* Mutant: an entry whose review text is empty is not skipped.
HandlerSkipsKeepsEmpty(review) ==
    \/ ~ IsDict(review)
    \/ Has(review, "error")
    \/ ~ Has(review, "review")

\* handler.py: the three tests that skip an entry without posting.
HandlerSkips(review) ==
    \/ ~ IsDict(review)
    \/ Has(review, "error")
    \/ Get(review, "review", <<>>) = <<>>

\* handler.py: for review in reviews, each entry in its own try; a failing
\* create_review is counted as failed.
RECURSIVE HandlerPostLoop(_, _, _, _)
HandlerPostLoop(reviews, fails, i, acc) ==
    IF i > Len(reviews) THEN acc
    ELSE LET review == reviews[i] IN
         IF HandlerSkips(review)
         THEN HandlerPostLoop(reviews, fails, i + 1, CountFailed(acc))
         ELSE IF fails[i]
         THEN HandlerPostLoop(reviews, fails, i + 1, CountFailed(acc))
         ELSE HandlerPostLoop(reviews, fails, i + 1,
                              CountPosted(acc, review.review))

\* handler.py: the list of reviews read from reviews_data, before the pull
\* request is looked up.
HandlerParseReviews(reviews_data) ==
    IF reviews_data.t = "str"
    THEN IF ~ IsJson(reviews_data) THEN [bad |-> TRUE]
         ELSE IF Loads(reviews_data).t = "dict"
         THEN [list |-> Get(Loads(reviews_data).v, "reviews", PyList(<<>>))]
         ELSE [list |-> PyList(<<>>)]
    ELSE IF reviews_data.t = "dict"
    THEN [list |-> Get(reviews_data.v, "reviews", PyList(<<>>))]
    ELSE IF reviews_data.t = "list" THEN [list |-> reviews_data]
    ELSE [bad |-> TRUE]

\* handler.py: post_review_comments(repo_name, pr_number, owner, reviews_data)
HandlerPost(reviews_data, env) ==
    LET found == HandlerParseReviews(reviews_data) IN
    IF Has(found, "bad") \/ found.list.t # "list"
    THEN PostRaised("PRReviewError", FALSE, <<>>)
    ELSE IF ~ env.known THEN PostRaised("PRReviewError", FALSE, <<>>)
    ELSE LET acc == HandlerPostLoop(found.list.v, env.fails, 1, Tally0)
         IN PostReturned([status |-> "completed",
                          successful_posts |-> acc.success,
                          failed_posts |-> acc.fail], acc.posted)

---------------------------------------------------------------------------
(* Change Fetcher, src/lambda/handler.py                                   *)

\* change_data of one file of the pull request; the patch key only when
\* the file has a patch.
ChangeData(file) ==
    LET base == [filename |-> file.filename, status |-> file.status,
                 additions |-> file.additions, deletions |-> file.deletions,
                 changes |-> file.changes]
    IN IF Truthy(file.patch)
       THEN [k \in DOMAIN base \cup {"patch"} |->
                IF k = "patch" THEN file.patch ELSE base[k]]
       ELSE base

FetchRaised(msg) == [raised |-> TRUE, msg |-> msg, changes |-> <<>>]

\* fetch_pr_changes(repo_name, pr_number, owner): every failure leaves as
\* PRReviewError.
HandlerFetch(pr_number, env) ==
    IF ~ env.repo_known
    THEN FetchRaised("GitHub API error fetching PR changes: 404 Not Found")
    ELSE IF ~ IntLike(pr_number)
    THEN FetchRaised("Unexpected error fetching PR changes: invalid literal for int()")
    ELSE IF ~ env.pr_known
    THEN FetchRaised("GitHub API error fetching PR changes: 404 Not Found")
    ELSE [raised |-> FALSE, msg |-> None,
          changes |-> [i \in DOMAIN env.files |-> ChangeData(env.files[i])]]

---------------------------------------------------------------------------
(* Step handler, src/lambda/handler.py                                     *)

Response(code, payload) == [statusCode |-> code, body |-> Dumps(PyDict(payload))]

\* What one invocation gives: the response, the calls of the generator and
\* of the publisher it made, and the comments it posted.
StepResult(response, g, p) == [response |-> response, gen |-> g, post |-> p]

BadRequest(msg) == StepResult(Response(400, [error |-> msg]), Idle, Idle)

\* Mutant: a PRReviewError is answered as a bad gateway.
ReviewErrorAsBadGateway == 500 + 2

\* except PRReviewError as pre
ReviewErrorStatus == 500

\* except Exception as e
InternalErrorStatus == 500

FetchFields == {"repository", "pull_request_number", "owner"}

PostFields == {"repository", "pull_request_number", "owner", "review"}

\* The publisher's view of the environment of an invocation.
PostEnv(env) ==
    [secret |-> "ok", known |-> env.repo_known /\ env.pr_known, fails |-> env.fails]

\* Mutant: a failed fetch is answered as a successful one without changes.
StepFetchSwallows(event, env) ==
    IF ~ (FetchFields \subseteq DOMAIN event)
    THEN BadRequest("Missing required fields for fetch_changes")
    ELSE StepResult(Response(200,
             [changes |-> PyList(HandlerFetch(event.pull_request_number,
                                              env).changes)]), Idle, Idle)

\* action == 'fetch_changes'
StepFetch(event, env) ==
    IF ~ (FetchFields \subseteq DOMAIN event)
    THEN BadRequest("Missing required fields for fetch_changes")
    ELSE LET got == HandlerFetch(event.pull_request_number, env) IN
         IF got.raised
         THEN StepResult(Response(ReviewErrorStatus, [error |-> got.msg]), Idle, Idle)
         ELSE StepResult(Response(200, [changes |-> PyList(got.changes)]), Idle, Idle)

\* action == 'generate_review'
StepGenerate(event, env) ==
    IF ~ Has(event, "changes") \/ Falsy(event.changes)
    THEN BadRequest("No changes provided for review generation")
    ELSE LET out == HandlerGenerate(event.changes, env.responses) IN
         StepResult(Response(200, [reviews |-> PyList(out.reviews)]),
                    [impl |-> "handler", input |-> event.changes,
                     responses |-> env.responses, out |-> out],
                    Idle)

\* action == 'post_comments': the tally post_review_comments returns is
\* not used.
StepPost(event, env) ==
    IF ~ (PostFields \subseteq DOMAIN event)
    THEN BadRequest("Missing required fields for post_comments")
    ELSE LET out == HandlerPost(event.review, PostEnv(env))
             call == [impl |-> "handler", input |-> event.review,
                      env |-> PostEnv(env), out |-> out]
         IN IF out.raised
            THEN StepResult(Response(ReviewErrorStatus, [error |-> out.exc]),
                            Idle, call)
            ELSE StepResult(Response(200, [status |-> "success"]), Idle, call)

\* lambda_handler(event, context)
LambdaHandler(event, env) ==
    IF ~ IsDict(event)
    THEN StepResult(Response(InternalErrorStatus,
                             [error |-> "Internal server error"]), Idle, Idle)
    ELSE IF ~ Truthy(Get(event, "action", None))
    THEN BadRequest("No action specified in event")
    ELSE IF event.action = "fetch_changes" THEN StepFetch(event, env)
    ELSE IF event.action = "generate_review" THEN StepGenerate(event, env)
    ELSE IF event.action = "post_comments" THEN StepPost(event, env)
    ELSE BadRequest("Unknown action: " \o event.action)

---------------------------------------------------------------------------
(* Request Gateway, src/lambda/api_handler.py                              *)

\* The keys handle_review_request reads from the body; reading a key that
\* is missing raises KeyError.
RequestFields ==
    {"repository", "pull_request_number", "owner", "branch", "pr_author",
     "pr_title", "pr_state", "pr_created_at", "commit_sha"}

\* handle_review_request(): starts an execution with the nine fields as
\* its input and answers 200 'started'.
HandleReviewRequest(body) ==
    IF ~ (RequestFields \subseteq DOMAIN body)
    THEN [route |-> "review", body |-> body, raised |-> TRUE,
          exc |-> "KeyError", started |-> FALSE]
    ELSE [route |-> "review", body |-> body, raised |-> FALSE, exc |-> None,
          started |-> TRUE,
          input |-> [k \in RequestFields |-> body[k]],
          response |-> [statusCode |-> 200,
                        body |-> [execution_arn |-> "arn:exec:1",
                                  status |-> "started"]]]

\* An empty JSON object.
EmptyObject == <<>>

\* metrics.add_metric(name, unit="Count", value=1): reached only when the
\* call before it did not raise.
AddMetric(m, name, reached) ==
    IF reached THEN [m EXCEPT ![name] = @ + 1] ELSE m

\* Mutant: the answer to a status poll leaves the output out.
HandleStatusRequestForgetsOutput(rec) ==
    IF rec.status = "NONE"
    THEN [route |-> "status", raised |-> TRUE, exc |-> "ExecutionDoesNotExist"]
    ELSE [route |-> "status", raised |-> FALSE, exc |-> None,
          response |->
              [statusCode |-> 200,
               body |-> [status |-> rec.status, output |-> EmptyObject,
                         stopDate |-> Get(rec, "stopDate", None)]]]

\* handle_status_request(execution_arn): the status of the execution, its
\* output decoded ('{}' when it has none) and its stop date, None while it
\* runs. describe_execution raises for an execution that does not exist.
HandleStatusRequest(rec) ==
    IF rec.status = "NONE"
    THEN [route |-> "status", raised |-> TRUE, exc |-> "ExecutionDoesNotExist"]
    ELSE [route |-> "status", raised |-> FALSE, exc |-> None,
          response |->
              [statusCode |-> 200,
               body |-> [status |-> rec.status,
                         output |-> IF Has(rec, "output")
                                    THEN Loads(rec.output).v ELSE EmptyObject,
                         stopDate |-> Get(rec, "stopDate", None)]]]

---------------------------------------------------------------------------
(* Workflow Orchestrator: the state machine that runs the three steps      *)

Running == {"FETCHING", "REVIEWING", "POSTING"}

Terminal == {"SUCCEEDED", "FAILED", "TIMED_OUT", "ABORTED"}

\* Mutant: the execution moves on whether the step succeeded or not.
AdvanceRegardless(state, ok) ==
    IF state = "FETCHING" THEN "REVIEWING"
    ELSE IF state = "REVIEWING" THEN "POSTING"
    ELSE "DONE"

\* The state after a step has answered: on, when the step succeeded, and
\* FAILED otherwise.
Advance(state, ok) ==
    IF ~ ok THEN "FAILED"
    ELSE IF state = "FETCHING" THEN "REVIEWING"
    ELSE IF state = "REVIEWING" THEN "POSTING"
    ELSE "DONE"

\* A step succeeded when it answered with status code 200.
StepOk(response) == response.statusCode = 200

\* Mutant: the record is written after every step that succeeded.
RecordAfterEveryStep(rec, next, response) ==
    IF next = "FAILED"
    THEN [status |-> "FAILED", input |-> rec.input, stopDate |-> "t1"]
    ELSE [status |-> "SUCCEEDED", input |-> rec.input,
          output |-> response.body, stopDate |-> "t1"]

\* The execution record after a step moved the execution to state next:
\* written once, when the execution ends.
RecordAfter(rec, next, response) ==
    IF rec.status # "RUNNING" THEN rec
    ELSE IF next = "DONE"
    THEN [status |-> "SUCCEEDED", input |-> rec.input,
          output |-> response.body, stopDate |-> "t1"]
    ELSE IF next = "FAILED"
    THEN [status |-> "FAILED", input |-> rec.input, stopDate |-> "t1"]
    ELSE rec

\* The execution record of a step that ran out of time.
RecordTimedOut(rec) ==
    IF rec.status # "RUNNING" THEN rec
    ELSE [status |-> "TIMED_OUT", input |-> rec.input, stopDate |-> "t1"]

---------------------------------------------------------------------------
(* Inputs that are enumerated                                              *)

\* File-change dicts as the fetchers build them (handler.py leaves the
\* patch key out of a binary file, utils.py sets it to None), and elements
\* that are no dict.
ChangeItems ==
    { [filename |-> "a.py", status |-> "modified", patch |-> "diff"],
      [filename |-> "b.bin", status |-> "added"],
      [filename |-> "b.bin", status |-> "added", patch |-> None],
      [filename |-> "c.py", status |-> "removed", patch |-> ""],
      [status |-> "modified", patch |-> "diff"],
      [filename |-> "d.py", patch |-> "diff"],
      NonDict }

HasPatch(change) ==
    IsDict(change) /\ Has(change, "patch") /\ Truthy(change.patch)

\* A change together with the answer the inference service would give for
\* it; a change that is never sent has the answer Unused.
ChangeCases ==
    { [change |-> c, resp |-> r] :
        c \in {x \in ChangeItems : HasPatch(x)}, r \in Responses }
    \cup { [change |-> c, resp |-> Unused] :
             c \in {x \in ChangeItems : ~ HasPatch(x)} }

CaseLists == UNION { [1..n -> ChangeCases] : n \in 0..MaxFiles }

ChangesOf(cases) == [i \in DOMAIN cases |-> cases[i].change]

ResponsesOf(cases) == [i \in DOMAIN cases |-> cases[i].resp]

\* The shapes in which a caller can hand a list of changes over.
Shapes == {"list", "dict", "json"}

Shaped(shape, list) ==
    IF shape = "list" THEN PyList(list)
    ELSE IF shape = "dict" THEN PyDict([changes |-> PyList(list)])
    ELSE Dumps(PyDict([changes |-> PyList(list)]))

\* Inputs that hold no list of changes at all.
OddInputs ==
    { PyNone, BadStr, Dumps(PyList(<<>>)), Dumps(PyNone),
      PyDict([other |-> PyNone]), PyDict([changes |-> PyNone]) }

\* Review entries: what the two generators emit, and entries that lack a
\* review, hold an empty one, or are no dict.
ReviewItems ==
    { [file |-> "a.py", review |-> <<"o", "k">>, status |-> "succeeded",
       model |-> BEDROCK_MODEL_ID],
      [file |-> "a.py", review |-> <<"o", "k">>, status |-> "modified",
       model |-> BEDROCK_MODEL_ID],
      [file |-> "a.py", error |-> "Bedrock SDK error for a.py: ClientError",
       status |-> "failed"],
      [file |-> "b.bin", error |-> "no patch content", status |-> "skipped"],
      [error |-> "Failed to process reviews: boom", status |-> "failed"],
      [file |-> "c.py", review |-> <<>>, status |-> "succeeded"],
      [file |-> "c.py", status |-> "succeeded"],
      NonDict }

\* The entry is one both publishers would post.
Postable(r) ==
    IsDict(r) /\ ~ Has(r, "error") /\ Has(r, "review") /\ r.review # <<>>

\* An entry together with whether create_review fails for it; an entry
\* that is never posted has no failure.
ReviewCases ==
    { [review |-> r, fails |-> f] :
        r \in {x \in ReviewItems : Postable(x)}, f \in BOOLEAN }
    \cup { [review |-> r, fails |-> FALSE] :
             r \in {x \in ReviewItems : ~ Postable(x)} }

ReviewLists == UNION { [1..n -> ReviewCases] : n \in 0..MaxFiles }

ReviewsOf(cases) == [i \in DOMAIN cases |-> cases[i].review]

FailsOf(cases) == [i \in DOMAIN cases |-> cases[i].fails]

\* The shapes in which a caller can hand a list of reviews over.
ReviewShapes == {"list", "dict", "json", "jsonlist"}

ShapedReviews(shape, list) ==
    IF shape = "list" THEN PyList(list)
    ELSE IF shape = "dict" THEN PyDict([reviews |-> PyList(list)])
    ELSE IF shape = "json" THEN Dumps(PyDict([reviews |-> PyList(list)]))
    ELSE Dumps(PyList(list))

\* Inputs that hold no list of reviews at all.
OddReviews ==
    { PyNone, BadStr, Dumps(PyNone), Dumps(PyDict([status |-> "success"])),
      PyDict([reviews |-> PyNone]), Dumps(PyDict([reviews |-> PyNone])) }

Envs(fails) ==
    { [secret |-> s, known |-> k, fails |-> fails] :
        s \in Secrets, k \in BOOLEAN }

\* Files of a pull request as the source-control client lists them; a
\* binary file has no patch.
PrFiles ==
    { [filename |-> "a.py", status |-> "modified", additions |-> 1,
       deletions |-> 0, changes |-> 1, patch |-> "diff"],
      [filename |-> "b.bin", status |-> "added", additions |-> 0,
       deletions |-> 0, changes |-> 0, patch |-> None],
      [filename |-> "c.py", status |-> "renamed", additions |-> 0,
       deletions |-> 0, changes |-> 0, patch |-> ""] }

FileLists == UNION { [1..n -> PrFiles] : n \in 0..MaxFiles }

\* The environment of one invocation of the step handler.
StepEnv(repo_known, pr_known, files, responses, fails) ==
    [repo_known |-> repo_known, pr_known |-> pr_known, files |-> files,
     responses |-> responses, fails |-> fails]

\* The fields of a complete event of each action.
FullFetchEvent(pr_number) ==
    [action |-> "fetch_changes", repository |-> "repo", owner |-> "demo",
     pull_request_number |-> pr_number]

FullGenerateEvent(changes) == [action |-> "generate_review", changes |-> changes]

FullPostEvent(review) ==
    [action |-> "post_comments", repository |-> "repo", owner |-> "demo",
     pull_request_number |-> PyInt(42), review |-> review]

\* The event with only the keys named.
Restrict(event, keys) == [k \in keys |-> event[k]]

\* Bodies of start-review requests: complete, or with a field missing.
FullRequest(pr_number) ==
    [repository |-> "repo", owner |-> "demo", pull_request_number |-> pr_number,
     branch |-> "main", pr_author |-> "ann", pr_title |-> "fix",
     pr_state |-> "open", pr_created_at |-> "2025-05-01", commit_sha |-> "abc"]

Requests ==
    { Restrict(FullRequest(n), RequestFields \ drop) :
        n \in {PyInt(42), BadStr},
        drop \in { {}, {"pull_request_number"}, {"repository"}, {"owner"},
                   {"branch"}, {"commit_sha"},
                   {"branch", "pr_author", "pr_title", "pr_state",
                    "pr_created_at", "commit_sha"} } }

\* What the execution finds outside: the credential, the repository and
\* pull request, and the files of the pull request.
Worlds ==
    { [secret |-> s, repo_known |-> r, pr_known |-> k, files |-> f] :
        s \in Secrets, r \in BOOLEAN, k \in BOOLEAN, f \in FileLists }

\* One answer of the inference service for each change that has a patch.
ResponseChoices(changes) ==
    { rs \in [DOMAIN changes -> Responses \cup {Unused}] :
        \A i \in DOMAIN changes : (rs[i] = Unused) <=> ~ HasPatch(changes[i]) }

\* Whether create_review fails, for each entry that can be posted.
FailChoices(reviews) ==
    { f \in [DOMAIN reviews -> BOOLEAN] :
        \A i \in DOMAIN reviews : f[i] => Postable(reviews[i]) }

---------------------------------------------------------------------------
(* State                                                                   *)

Init ==
    /\ gen = Idle
    /\ post = Idle
    /\ step = Idle
    /\ orch = "INIT"
    /\ record = [status |-> "NONE"]
    /\ handoff = Dumps(PyNone)
    /\ comments = <<>>
    /\ world = [secret |-> "ok", repo_known |-> TRUE, pr_known |-> TRUE,
                files |-> <<>>]
    /\ api = [route |-> "none"]
    /\ metrics = [ReviewStarted |-> 0, StatusChecked |-> 0]

\* A direct call of utils.generate_review_with_bedrock.
CallUtilsGenerate ==
    /\ gen = Idle
    /\ \E shape \in Shapes, cases \in CaseLists :
          gen' = [impl |-> "utils", shape |-> shape,
                  changes |-> ChangesOf(cases), responses |-> ResponsesOf(cases),
                  out |-> UtilsGenerate(Shaped(shape, ChangesOf(cases)),
                                        ResponsesOf(cases))]
    /\ UNCHANGED <<post, step, orch, record, handoff, comments, world,
                   api, metrics>>

\* A direct call of handler.generate_review_with_bedrock.
CallHandlerGenerate ==
    /\ gen = Idle
    /\ \E shape \in Shapes, cases \in CaseLists :
          gen' = [impl |-> "handler", shape |-> shape,
                  changes |-> ChangesOf(cases), responses |-> ResponsesOf(cases),
                  out |-> HandlerGenerate(Shaped(shape, ChangesOf(cases)),
                                          ResponsesOf(cases))]
    /\ UNCHANGED <<post, step, orch, record, handoff, comments, world,
                   api, metrics>>

\* A direct call of either generator with an input that holds no list.
CallGenerateOdd ==
    /\ gen = Idle
    /\ \E impl \in {"utils", "handler"}, input \in OddInputs :
          gen' = [impl |-> impl, shape |-> "odd", odd |-> input,
                  changes |-> <<>>, responses |-> <<>>,
                  out |-> IF impl = "utils" THEN UtilsGenerate(input, <<>>)
                          ELSE HandlerGenerate(input, <<>>)]
    /\ UNCHANGED <<post, step, orch, record, handoff, comments, world,
                   api, metrics>>

NextGenerate == CallUtilsGenerate \/ CallHandlerGenerate \/ CallGenerateOdd

SpecGenerate == Init /\ [][NextGenerate]_vars

\* A direct call of utils.post_review_comments.
CallUtilsPost ==
    /\ post = Idle
    /\ \E shape \in ReviewShapes, cases \in ReviewLists :
         \E env \in Envs(FailsOf(cases)) :
            post' = [impl |-> "utils", shape |-> shape,
                     reviews |-> ReviewsOf(cases), env |-> env,
                     out |-> UtilsPost(ShapedReviews(shape, ReviewsOf(cases)), env)]
    /\ UNCHANGED <<gen, step, orch, record, handoff, comments, world,
                   api, metrics>>

\* A direct call of handler.post_review_comments; the module loads only
\* when its initialize_clients() succeeds.
CallHandlerPost ==
    /\ post = Idle
    /\ \E shape \in ReviewShapes, cases \in ReviewLists :
         \E env \in Envs(FailsOf(cases)) :
            post' = [impl |-> "handler", shape |-> shape,
                     reviews |-> ReviewsOf(cases), env |-> env,
                     out |-> IF HandlerInitFails(env.secret)
                             THEN PostRaised("PRReviewError", FALSE, <<>>)
                             ELSE HandlerPost(
                                      ShapedReviews(shape, ReviewsOf(cases)), env)]
    /\ UNCHANGED <<gen, step, orch, record, handoff, comments, world,
                   api, metrics>>

\* A direct call of either publisher with an input that holds no list.
CallPostOdd ==
    /\ post = Idle
    /\ \E impl \in {"utils", "handler"}, input \in OddReviews :
         \E env \in Envs(<<>>) :
            post' = [impl |-> impl, shape |-> "odd", odd |-> input,
                     reviews |-> <<>>, env |-> env,
                     out |-> IF impl = "utils" THEN UtilsPost(input, env)
                             ELSE IF HandlerInitFails(env.secret)
                             THEN PostRaised("PRReviewError", FALSE, <<>>)
                             ELSE HandlerPost(input, env)]
    /\ UNCHANGED <<gen, step, orch, record, handoff, comments, world,
                   api, metrics>>

NextPost == CallUtilsPost \/ CallHandlerPost \/ CallPostOdd

SpecPost == Init /\ [][NextPost]_vars

\* An invocation of the step handler with no usable action.
InvokeNoAction ==
    /\ step = Idle
    /\ \E event \in { NonDict, [repository |-> "repo"], [action |-> ""],
                      [action |-> None], [action |-> "merge"] } :
          LET env == StepEnv(TRUE, TRUE, <<>>, <<>>, <<>>) IN
          step' = [impl |-> "handler", event |-> event, env |-> env,
                   out |-> LambdaHandler(event, env)]
    /\ UNCHANGED <<gen, post, orch, record, handoff, comments, world,
                   api, metrics>>

\* An invocation with action fetch_changes, with any of its fields missing.
InvokeFetch ==
    /\ step = Idle
    /\ \E keys \in SUBSET FetchFields, pr_number \in {PyInt(42), BadStr},
          repo_known \in BOOLEAN, pr_known \in BOOLEAN, files \in FileLists :
          LET env == StepEnv(repo_known, pr_known, files, <<>>, <<>>)
              event == Restrict(FullFetchEvent(pr_number), keys \cup {"action"})
          IN step' = [impl |-> "handler", event |-> event, env |-> env,
                      out |-> LambdaHandler(event, env)]
    /\ UNCHANGED <<gen, post, orch, record, handoff, comments, world,
                   api, metrics>>

\* An invocation with action generate_review.
InvokeGenerate ==
    /\ step = Idle
    /\ \/ \E shape \in Shapes, cases \in CaseLists :
            LET env == StepEnv(TRUE, TRUE, <<>>, ResponsesOf(cases), <<>>)
                event == FullGenerateEvent(Shaped(shape, ChangesOf(cases)))
            IN step' = [impl |-> "handler", event |-> event, env |-> env,
                        out |-> LambdaHandler(event, env)]
       \/ \E event \in {[action |-> "generate_review"]}
                         \cup {FullGenerateEvent(x) : x \in OddInputs} :
            LET env == StepEnv(TRUE, TRUE, <<>>, <<>>, <<>>) IN
            step' = [impl |-> "handler", event |-> event, env |-> env,
                     out |-> LambdaHandler(event, env)]
    /\ UNCHANGED <<gen, post, orch, record, handoff, comments, world,
                   api, metrics>>

\* An invocation with action post_comments, with any of its fields missing.
InvokePost ==
    /\ step = Idle
    /\ \/ \E shape \in ReviewShapes, cases \in ReviewLists,
             repo_known \in BOOLEAN, pr_known \in BOOLEAN :
            LET env == StepEnv(repo_known, pr_known, <<>>, <<>>, FailsOf(cases))
                event == FullPostEvent(ShapedReviews(shape, ReviewsOf(cases)))
            IN step' = [impl |-> "handler", event |-> event, env |-> env,
                        out |-> LambdaHandler(event, env)]
       \/ \E keys \in SUBSET PostFields, review \in OddReviews :
            LET env == StepEnv(TRUE, TRUE, <<>>, <<>>, <<>>)
                event == Restrict(FullPostEvent(review), keys \cup {"action"})
            IN step' = [impl |-> "handler", event |-> event, env |-> env,
                        out |-> LambdaHandler(event, env)]
    /\ UNCHANGED <<gen, post, orch, record, handoff, comments, world,
                   api, metrics>>

NextStep == InvokeNoAction \/ InvokeFetch \/ InvokeGenerate \/ InvokePost

SpecStep == Init /\ [][NextStep]_vars

---------------------------------------------------------------------------
(* The workflow: one execution from the start request to its end           *)

\* The gateway receives a start-review request; a complete one starts the
\* execution.
ReviewRequest ==
    /\ orch = "INIT"
    /\ \E body \in Requests, w \in Worlds :
          LET r == HandleReviewRequest(body) IN
          /\ api' = r
          /\ IF r.started
             THEN /\ orch' = "FETCHING"
                  /\ record' = [status |-> "RUNNING", input |-> r.input]
                  /\ world' = w
             ELSE UNCHANGED <<orch, record, world>>
          /\ metrics' = AddMetric(metrics, "ReviewStarted", r.started)
    /\ UNCHANGED <<gen, post, step, handoff, comments>>

\* One invocation of the step function by the orchestrator; the function
\* does not load when its client initialization fails.
Invoke(event, env) ==
    IF HandlerInitFails(world.secret)
    THEN [impl |-> "handler", event |-> event, env |-> env, loaded |-> FALSE,
          out |-> StepResult([errorType |-> "PRReviewError"], Idle, Idle)]
    ELSE [impl |-> "handler", event |-> event, env |-> env, loaded |-> TRUE,
          out |-> LambdaHandler(event, env)]

InvokeOk(call) == call.loaded /\ StepOk(call.out.response)

\* The orchestrator runs the fetch step on the request.
FetchStep ==
    /\ orch = "FETCHING"
    /\ LET event == [action |-> "fetch_changes",
                     repository |-> record.input.repository,
                     pull_request_number |-> record.input.pull_request_number,
                     owner |-> record.input.owner]
           env == StepEnv(world.repo_known, world.pr_known, world.files,
                          <<>>, <<>>)
           call == Invoke(event, env)
           next == Advance(orch, InvokeOk(call))
       IN /\ step' = call
          /\ orch' = next
          /\ record' = RecordAfter(record, next, call.out.response)
          /\ handoff' = IF InvokeOk(call) THEN call.out.response.body ELSE handoff
    /\ UNCHANGED <<gen, post, comments, world, api, metrics>>

\* The orchestrator runs the review step on the output of the fetch step.
ReviewStep ==
    /\ orch = "REVIEWING"
    /\ \E rs \in ResponseChoices(Loads(handoff).v.changes.v) :
          LET event == [action |-> "generate_review", changes |-> handoff]
              env == StepEnv(world.repo_known, world.pr_known, world.files,
                             rs, <<>>)
              call == Invoke(event, env)
              next == Advance(orch, InvokeOk(call))
          IN /\ step' = call
             /\ gen' = call.out.gen
             /\ orch' = next
             /\ record' = RecordAfter(record, next, call.out.response)
             /\ handoff' = IF InvokeOk(call) THEN call.out.response.body
                           ELSE handoff
    /\ UNCHANGED <<post, comments, world, api, metrics>>

\* The orchestrator runs the post step on the output of the review step.
PostStep ==
    /\ orch = "POSTING"
    /\ \E fails \in FailChoices(Loads(handoff).v.reviews.v) :
          LET event == [action |-> "post_comments",
                        repository |-> record.input.repository,
                        pull_request_number |-> record.input.pull_request_number,
                        owner |-> record.input.owner,
                        review |-> handoff]
              env == StepEnv(world.repo_known, world.pr_known, world.files,
                             <<>>, fails)
              call == Invoke(event, env)
              next == Advance(orch, InvokeOk(call))
          IN /\ step' = call
             /\ post' = call.out.post
             /\ comments' = IF call.out.post = Idle THEN comments
                            ELSE comments \o call.out.post.out.posted
             /\ orch' = next
             /\ record' = RecordAfter(record, next, call.out.response)
    /\ UNCHANGED <<gen, handoff, world, api, metrics>>

\* The running step exceeds its time limit.
StepTimeout ==
    /\ orch \in Running
    /\ orch' = "FAILED"
    /\ record' = RecordTimedOut(record)
    /\ UNCHANGED <<gen, post, step, handoff, comments, world, api, metrics>>

NoAnswer == [body |-> [status |-> "NONE"]]

\* The answer to a status poll, together with the answer the client got to
\* the poll before it (NoAnswer when the call before was no answered poll).
Polled(answer, last) ==
    [k \in DOMAIN answer \cup {"previous"} |->
        IF k # "previous" THEN answer[k]
        ELSE IF last.route = "status" /\ ~ last.raised THEN last.response
        ELSE NoAnswer]

\* A client polls the status of the execution.
GetStatus ==
    /\ metrics.StatusChecked < MaxPolls
    /\ api' = Polled(HandleStatusRequest(record), api)
    /\ metrics' = AddMetric(metrics, "StatusChecked",
                            ~ HandleStatusRequest(record).raised)
    /\ UNCHANGED <<gen, post, step, orch, record, handoff, comments, world>>

Next ==
    ReviewRequest \/ FetchStep \/ ReviewStep \/ PostStep \/ StepTimeout \/ GetStatus

Spec == Init /\ [][Next]_vars

---------------------------------------------------------------------------
(* Claims about the Review Generator, checked under SpecGenerate           *)

\* The call handed the list over in the form the implementation takes it:
\* utils.py iterates its argument, handler.py reads the key 'changes' of a
\* dict or of the JSON text of one.
Accepted(g) ==
    \/ g.impl = "utils" /\ g.shape = "list"
    \/ g.impl = "handler" /\ g.shape \in {"dict", "json"}

\* Every element of the input is a file-change dict.
AllDicts(g) == \A i \in DOMAIN g.changes : IsDict(g.changes[i])

GenCalled == gen # Idle /\ Accepted(gen) /\ AllDicts(gen)

\* The same call on the first n changes only.
PrefixOut(g, n) ==
    IF g.impl = "utils"
    THEN UtilsGenerate(Shaped(g.shape, SubSeq(g.changes, 1, n)), g.responses)
    ELSE HandlerGenerate(Shaped(g.shape, SubSeq(g.changes, 1, n)), g.responses)

\* The entry the generator appended for file i, when it appended one.
EntryOf(g, i) ==
    SubSeq(PrefixOut(g, i).reviews,
           Len(PrefixOut(g, i - 1).reviews) + 1, Len(PrefixOut(g, i).reviews))

\* The file failed in the generator: it has a patch and its entry carries
\* an error.
FailedAt(g, i) ==
    /\ HasPatch(g.changes[i])
    /\ EntryOf(g, i) # <<>>
    /\ Has(EntryOf(g, i)[1], "error")

\* C1: a call of generate_reviews on a list of file changes returns exactly
\* one ReviewResult per input change.
C1_OneResultPerChange ==
    GenCalled => /\ ~ gen.out.raised
                 /\ Len(gen.out.reviews) = Len(gen.changes)

\* C1, utils.py alone: one result per change.
C1_UtilsOneResultPerChange ==
    GenCalled /\ gen.impl = "utils"
        => /\ ~ gen.out.raised
           /\ Len(gen.out.reviews) = Len(gen.changes)

\* C1, handler.py alone: one result per change that has a patch.
C1_HandlerOneResultPerPatch ==
    GenCalled /\ gen.impl = "handler"
        => /\ ~ gen.out.raised
           /\ Len(gen.out.reviews) =
                  Cardinality({i \in DOMAIN gen.changes : HasPatch(gen.changes[i])})

\* C2: a file change without patch content gets an entry with status
\* skipped, error "no patch content" and no review, and the inference
\* service is not called for it.
C2_NoPatchIsSkipped ==
    GenCalled =>
        \A i \in DOMAIN gen.changes :
            ~ HasPatch(gen.changes[i]) =>
                /\ i \notin gen.out.invoked
                /\ Len(EntryOf(gen, i)) = 1
                /\ EntryOf(gen, i)[1].status = "skipped"
                /\ Get(EntryOf(gen, i)[1], "error", None) = "no patch content"
                /\ ~ Has(EntryOf(gen, i)[1], "review")

\* C2, the part both implementations keep: no inference call for a file
\* without patch content, and no review text for it.
C2_NoPatchNotInvoked ==
    GenCalled =>
        \A i \in DOMAIN gen.changes :
            ~ HasPatch(gen.changes[i]) =>
                /\ i \notin gen.out.invoked
                /\ \A k \in DOMAIN EntryOf(gen, i) :
                       ~ Has(EntryOf(gen, i)[k], "review")

\* C5: when file i fails in the generator, every later file is still
\* processed and gets its own ReviewResult.
C5_FailureIsolated ==
    GenCalled =>
        \A i \in DOMAIN gen.changes :
            FailedAt(gen, i) =>
                /\ ~ gen.out.raised
                /\ \A j \in DOMAIN gen.changes :
                       j > i => /\ HasPatch(gen.changes[j]) => j \in gen.out.invoked
                                /\ Len(EntryOf(gen, j)) = 1

\* C5, the part both implementations keep: after a failed file the loop
\* goes on, and every later file that has a patch is sent and gets an entry.
C5_LoopGoesOn ==
    GenCalled =>
        \A i \in DOMAIN gen.changes :
            FailedAt(gen, i) =>
                /\ ~ gen.out.raised
                /\ \A j \in DOMAIN gen.changes :
                       j > i /\ HasPatch(gen.changes[j])
                           => j \in gen.out.invoked /\ Len(EntryOf(gen, j)) = 1

\* C6: generate_reviews never raises, whatever the list holds.
C6_GenerateNeverRaises == gen # Idle /\ Accepted(gen) => ~ gen.out.raised

\* C6, handler.py alone: never raises.
C6_HandlerNeverRaises == gen # Idle /\ gen.impl = "handler" => ~ gen.out.raised

---------------------------------------------------------------------------
(* Claims about the Comment Publisher, checked under SpecPost              *)

\* The call handed the list over in a form the implementation reads a list
\* from: utils.py parses a JSON text (of the list, or of a dict holding it);
\* handler.py takes a list, a dict holding it, or the JSON text of such a
\* dict.
PostAccepted(p) ==
    \/ p.impl = "utils" /\ p.shape \in {"json", "jsonlist"}
    \/ p.impl = "handler" /\ p.shape \in {"list", "dict", "json"}

PostCalled == post # Idle /\ PostAccepted(post)

\* The entries a posting call fails for.
FailingPosts(p) == {i \in DOMAIN p.reviews : p.env.fails[i]}

\* C3: the tally a publisher returns counts every entry of the list once:
\* successful_posts + failed_posts = length of the list.
C3_TallyCountsAll ==
    PostCalled /\ ~ post.out.raised
        => post.out.tally.successful_posts + post.out.tally.failed_posts
               = Len(post.reviews)

\* C3 witness: a publisher returned a tally for a list of two entries or
\* more, with both a posted and a failed entry.
C3_Witness ==
    /\ PostCalled /\ ~ post.out.raised
    /\ Len(post.reviews) >= 2
    /\ post.out.tally.successful_posts > 0
    /\ post.out.tally.failed_posts > 0

\* C4: once the pull request is located the publisher never raises; a
\* failing posting call is counted in failed_posts, the entries after it
\* are still processed, and the tally is returned.
C4_PostNeverRaises ==
    PostCalled /\ post.out.located
               /\ (\A i \in DOMAIN post.reviews : IsDict(post.reviews[i]))
        => /\ ~ post.out.raised
           /\ post.out.tally.failed_posts >= Cardinality(FailingPosts(post))
           /\ post.out.tally.successful_posts =
                  Cardinality({i \in DOMAIN post.reviews :
                                  Postable(post.reviews[i]) /\ ~ post.env.fails[i]})
           /\ post.out.tally.successful_posts + post.out.tally.failed_posts
                  = Len(post.reviews)

\* C4, handler.py alone: never raises once the pull request is located.
C4_HandlerPostNeverRaises ==
    PostCalled /\ post.impl = "handler" /\ post.out.located
        => /\ ~ post.out.raised
           /\ post.out.tally.failed_posts >= Cardinality(FailingPosts(post))

---------------------------------------------------------------------------
(* Claims about the step handler, checked under SpecStep                   *)

StepCalled == step # Idle

StatusOf(st) == st.out.response.statusCode

\* The invocation has no action, an unknown one, or lacks a field its
\* action requires.
MissingInput(st) ==
    \/ IsDict(st.event) /\ ~ Truthy(Get(st.event, "action", None))
    \/ IsDict(st.event) /\ Truthy(Get(st.event, "action", None))
        /\ \/ st.event.action = "fetch_changes"
                /\ ~ (FetchFields \subseteq DOMAIN st.event)
           \/ st.event.action = "post_comments"
                /\ ~ (PostFields \subseteq DOMAIN st.event)
           \/ st.event.action = "generate_review"
                /\ (~ Has(st.event, "changes") \/ Falsy(st.event.changes))

\* The source-control provider rejects the lookup of a complete fetch or
\* post request (a post request looks the pull request up once its reviews
\* have been read).
ScmError(st) ==
    /\ IsDict(st.event) /\ Truthy(Get(st.event, "action", None))
    /\ ~ (st.env.repo_known /\ st.env.pr_known)
    /\ \/ st.event.action = "fetch_changes"
            /\ FetchFields \subseteq DOMAIN st.event
            /\ (st.env.repo_known => IntLike(st.event.pull_request_number))
       \/ st.event.action = "post_comments"
            /\ PostFields \subseteq DOMAIN st.event
            /\ ~ Has(HandlerParseReviews(st.event.review), "bad")
            /\ HandlerParseReviews(st.event.review).list.t = "list"

\* The inference provider fails for a file of a complete generate request.
InferenceError(st) ==
    /\ IsDict(st.event) /\ Get(st.event, "action", None) = "generate_review"
    /\ st.out.gen # Idle
    /\ \E i \in st.out.gen.out.invoked : st.env.responses[i] = SdkError

\* An error that is neither the caller's nor a provider's: an event that is
\* no dict, a pull request number that is no number.
InternalError(st) ==
    \/ ~ IsDict(st.event)
    \/ /\ Get(st.event, "action", None) = "fetch_changes"
       /\ FetchFields \subseteq DOMAIN st.event
       /\ st.env.repo_known /\ ~ IntLike(st.event.pull_request_number)

---------------------------------------------------------------------------
(* Claims about the workflow, checked under Spec                           *)

\* C7: the status of an execution starts as RUNNING, changes at most once,
\* to a terminal status, and once it has left RUNNING the record (status
\* and output) never changes again.
C7_StatusOnlyForward ==
    [][ /\ record.status = "NONE" /\ record' # record
            => record'.status = "RUNNING"
        /\ record.status = "RUNNING" /\ record' # record
            => record'.status \in Terminal
        /\ record.status \in Terminal => record' = record ]_vars

\* C7 witness: the execution has ended and its status has been polled
\* since.
C7_Witness ==
    /\ record.status \in Terminal
    /\ api.route = "status" /\ ~ api.raised
    /\ api.response.body.status = record.status

\* The fetch step ran and the source-control provider rejected the lookup.
FetchRejected ==
    /\ step # Idle /\ step.loaded
    /\ step.event.action = "fetch_changes"
    /\ ScmError(step)

\* C8: when the provider rejects the fetch step's lookup the execution is
\* FAILED: no review or post step runs, no comment is posted, and a status
\* poll answers FAILED with an empty output.
C8_RejectedFetchFails ==
    /\ [](FetchRejected =>
            /\ orch = "FAILED" /\ record.status = "FAILED"
            /\ ~ Has(record, "output")
            /\ gen = Idle /\ post = Idle /\ comments = <<>>)
    /\ [][FetchRejected /\ api' # api =>
            /\ ~ api'.raised
            /\ api'.response.body.status = "FAILED"
            /\ api'.response.body.output = EmptyObject]_vars

\* C8 witness: the lookup was rejected and the status has been polled since.
C8_Witness ==
    /\ FetchRejected
    /\ api.route = "status" /\ ~ api.raised
    /\ api.response.body.status = "FAILED"

\* The publisher was called by the post step and returned its tally.
PublisherReturned == post # Idle /\ ~ post.out.raised

\* C9: when the publisher returns a tally the execution ends as DONE, also
\* with failed posts, and the output of the execution carries the tally's
\* successful_posts and failed_posts.
C9_DoneWithCounts ==
    PublisherReturned =>
        /\ orch = "DONE" /\ record.status = "SUCCEEDED"
        /\ Has(record, "output")
        /\ Has(Loads(record.output).v, "successful_posts")
        /\ Has(Loads(record.output).v, "failed_posts")
        /\ Loads(record.output).v.successful_posts
               = post.out.tally.successful_posts
        /\ Loads(record.output).v.failed_posts = post.out.tally.failed_posts

\* C9, the part the code keeps: the execution ends as DONE whatever the
\* tally; its output is {status: success}.
C9_DoneWhateverTheTally ==
    PublisherReturned =>
        /\ orch = "DONE" /\ record.status = "SUCCEEDED"
        /\ Loads(record.output).v = [status |-> "success"]

---------------------------------------------------------------------------
(* Claims about the Request Gateway, checked under Spec                    *)

\* The fields a start-review request must carry.
RequiredFields == {"repository", "owner", "pull_request_number"}

\* C11: a start-review request that lacks a required field is refused and
\* starts no execution; a request that carries the three required fields,
\* with or without the optional ones, starts exactly one execution.
C11_RequiredFieldsStart ==
    api.route = "review" =>
        /\ ~ (RequiredFields \subseteq DOMAIN api.body)
               => /\ api.raised /\ ~ api.started
                  /\ record.status = "NONE" /\ metrics.ReviewStarted = 0
        /\ RequiredFields \subseteq DOMAIN api.body
               => /\ ~ api.raised /\ api.started
                  /\ record.status # "NONE" /\ metrics.ReviewStarted = 1

\* C11, the part the code keeps: a request that lacks any of the nine
\* fields is refused with KeyError and starts no execution, a request that
\* carries all nine starts one, and no more than one execution is started.
C11_AllNineFieldsStart ==
    /\ metrics.ReviewStarted <= 1
    /\ metrics.ReviewStarted = 1 <=> record.status # "NONE"
    /\ api.route = "review" =>
           /\ ~ (RequestFields \subseteq DOMAIN api.body)
                  => /\ api.raised /\ api.exc = "KeyError" /\ ~ api.started
                     /\ record.status = "NONE" /\ metrics.ReviewStarted = 0
           /\ RequestFields \subseteq DOMAIN api.body
                  => /\ ~ api.raised /\ api.started
                     /\ record.status # "NONE" /\ metrics.ReviewStarted = 1
                     /\ api.response.statusCode = 200

\* A request without a required field was refused.
C11_RefusedSeen ==
    /\ api.route = "review" /\ api.raised
    /\ "pull_request_number" \notin DOMAIN api.body

\* The answer of a status poll whose previous poll was answered with a
\* terminal status.
PolledAgain ==
    /\ api.route = "status" /\ ~ api.raised
    /\ api.previous.body.status \in Terminal

\* C12: get_status changes no execution state, and polls of an execution
\* that has reached a terminal status all get the same status and output.
C12_StatusPollIdempotent ==
    /\ [](PolledAgain => api.response = api.previous)
    /\ [](api.route = "status" /\ ~ api.raised /\ record.status \in Terminal
             /\ api.response.body.status \in Terminal
           => /\ api.response.body.status = record.status
              /\ api.response.body.output =
                     IF Has(record, "output") THEN Loads(record.output).v
                     ELSE EmptyObject)
    /\ [][api'.route = "status" /\ api' # api
             => UNCHANGED <<gen, post, step, orch, record, handoff, comments,
                            world>>]_vars

\* C12 witness: a finished execution with an output has been polled twice.
C12_Witness ==
    /\ PolledAgain
    /\ record.status = "SUCCEEDED"
    /\ api.response.body.output # EmptyObject
    /\ metrics.StatusChecked = 2

---------------------------------------------------------------------------
(* Claims about what the Comment Publisher posts, checked under SpecPost   *)

\* The same call on the first n entries only.
PostPrefix(p, n) ==
    IF p.impl = "utils"
    THEN UtilsPost(ShapedReviews(p.shape, SubSeq(p.reviews, 1, n)), p.env)
    ELSE HandlerPost(ShapedReviews(p.shape, SubSeq(p.reviews, 1, n)), p.env)

\* The publisher posted a comment for entry i.
PostedAt(p, i) ==
    Len(PostPrefix(p, i).posted) = Len(PostPrefix(p, i - 1).posted) + 1

\* A publisher went through a list of dict entries and no posting call
\* failed.
PostedAll ==
    /\ PostCalled /\ ~ post.out.raised
    /\ \A i \in DOMAIN post.reviews : IsDict(post.reviews[i])
    /\ FailingPosts(post) = {}

\* The entry has status succeeded and a review text that is not empty.
SucceededWithText(r) ==
    Get(r, "status", None) = "succeeded" /\ Get(r, "review", <<>>) # <<>>

\* The entry keeps the rule of a ReviewResult: a review exactly when its
\* status is succeeded, an error exactly when it is failed or skipped.
WellFormed(r) ==
    /\ Get(r, "status", None) \in {"succeeded", "failed", "skipped"}
    /\ Has(r, "review") <=> r.status = "succeeded"
    /\ Has(r, "error") <=> r.status \in {"failed", "skipped"}

\* C13: the publisher posts a comment for an entry if and only if its
\* status is succeeded and its review text is not empty; every other entry
\* is counted in failed_posts, and the number of comments posted equals
\* successful_posts.
C13_PostsIffSucceeded ==
    PostedAll =>
        /\ \A i \in DOMAIN post.reviews :
               PostedAt(post, i) <=> SucceededWithText(post.reviews[i])
        /\ post.out.tally.failed_posts =
               Cardinality({i \in DOMAIN post.reviews :
                               ~ SucceededWithText(post.reviews[i])})
        /\ Len(post.out.posted) = post.out.tally.successful_posts

\* C13, what both publishers do: an entry is posted if and only if it has
\* no error key and a review text that is not empty, whatever its status.
C13_PostsIffReviewNoError ==
    PostedAll =>
        /\ \A i \in DOMAIN post.reviews :
               PostedAt(post, i) <=> Postable(post.reviews[i])
        /\ post.out.tally.failed_posts =
               Cardinality({i \in DOMAIN post.reviews :
                               ~ Postable(post.reviews[i])})
        /\ Len(post.out.posted) = post.out.tally.successful_posts

\* C13 on entries that keep the rule of a ReviewResult: there the two
\* tests agree and the claim holds.
C13_WellFormedPostsIffSucceeded ==
    PostedAll /\ (\A i \in DOMAIN post.reviews : WellFormed(post.reviews[i]))
        => \A i \in DOMAIN post.reviews :
               PostedAt(post, i) <=> SucceededWithText(post.reviews[i])

\* An entry with a status other than succeeded was posted.
C13_PostedUnsucceeded ==
    /\ PostedAll
    /\ \E i \in DOMAIN post.reviews :
           PostedAt(post, i) /\ post.reviews[i].status = "modified"

---------------------------------------------------------------------------
(* Claims about a pull request without changed files                       *)

\* The value is the empty list, a dict that holds it under 'changes', or
\* the JSON text of such a dict.
EmptyChanges(x) ==
    LET IsEmptyList(y) == y.t = "list" /\ y.v = <<>>
        HoldsEmptyList(y) ==
            y.t = "dict" /\ Has(y.v, "changes") /\ IsEmptyList(y.v.changes)
    IN \/ IsEmptyList(x)
       \/ HoldsEmptyList(x)
       \/ IsJson(x) /\ HoldsEmptyList(Loads(x))

\* The review step was invoked with a list of changes that is empty, in
\* any of the forms a list is handed over in.
EmptyChangesStep ==
    /\ StepCalled /\ IsDict(step.event)
    /\ Get(step.event, "action", None) = "generate_review"
    /\ Has(step.event, "changes")
    /\ EmptyChanges(step.event.changes)

\* C14: review generation on no changes is not an error: the
\* generate_review step invoked with an empty changes list answers with an
\* empty review list and not with an error response.
C14_EmptyChangesNoError ==
    EmptyChangesStep =>
        /\ StatusOf(step) = 200
        /\ step.out.response.body = Dumps(PyDict([reviews |-> PyList(<<>>)]))

\* C14, the part the code keeps in the step: the empty list inside a dict
\* or inside the JSON text of one, which is how the fetch step's output
\* arrives, gives an empty review list.
C14_EmptyChangesInsideDict ==
    EmptyChangesStep /\ step.event.changes.t # "list" =>
        /\ StatusOf(step) = 200
        /\ step.out.response.body = Dumps(PyDict([reviews |-> PyList(<<>>)]))

\* C14, the generators themselves (under SpecGenerate): the empty sequence
\* gives the empty sequence, without a call of the inference service.
C14_EmptyInEmptyOut ==
    gen # Idle /\ Accepted(gen) /\ gen.changes = <<>> =>
        /\ ~ gen.out.raised
        /\ gen.out.reviews = <<>>
        /\ gen.out.invoked = {}

\* C14, the workflow (under Spec): a pull request without changed files
\* passes the review step with an empty review list.
C14_NoFilesPassReview ==
    /\ step # Idle /\ step.loaded
    /\ step.event.action = "generate_review"
    /\ world.files = <<>>
    => /\ orch \in {"POSTING", "FAILED"}
       /\ StatusOf(step) = 200
       /\ step.out.response.body = Dumps(PyDict([reviews |-> PyList(<<>>)]))

---------------------------------------------------------------------------
(* Claims about a failing inference call                                   *)

\* The texts of the text parts of an answer.
TextsOf(resp) ==
    { resp.payload.content[k].text :
        k \in { j \in DOMAIN Get(resp.payload, "content", <<>>) :
                  /\ Get(resp.payload.content[j], "type", None) = "text"
                  /\ Has(resp.payload.content[j], "text") } }

\* The inference call fails, or its answer has no usable text.
NoUsableText(resp) ==
    \/ resp.kind \in {"sdk_error", "bad_json"}
    \/ resp.kind = "payload" /\ \A t \in TextsOf(resp) : Strip(t) = <<>>

\* The empty-text case: a well-formed answer whose text is blank or absent.
EmptyText(resp) ==
    /\ resp.kind = "payload" /\ NoUsableText(resp)
    /\ \A k \in DOMAIN Get(resp.payload, "content", <<>>) :
           /\ Has(resp.payload.content[k], "type")
           /\ resp.payload.content[k].type = "text"
                  => Has(resp.payload.content[k], "text")

\* The messages of the two generators that speak of empty content.
MentionsEmpty(e) ==
    e.error \in
        { "Invalid response format for " \o e.file
              \o ": Empty review text from Bedrock",
          "Unexpected error processing " \o e.file
              \o ": Empty review content from Bedrock",
          "Unexpected error processing " \o e.file
              \o ": No content in Bedrock response" }

\* The entry is a failed ReviewResult: status failed, an error message and
\* no review.
FailedEntry(e) ==
    /\ Get(e, "status", None) = "failed"
    /\ Has(e, "error") /\ e.error # ""
    /\ ~ Has(e, "review")

\* The files of call g that have a patch and got no usable answer.
Unanswered(g) ==
    { i \in DOMAIN g.changes :
        HasPatch(g.changes[i]) /\ NoUsableText(g.responses[i]) }

\* The generator's part of C15, for files i of call g.
FailedEntries(g) ==
    \A i \in Unanswered(g) :
        /\ Len(EntryOf(g, i)) = 1
        /\ FailedEntry(EntryOf(g, i)[1])
        /\ EmptyText(g.responses[i]) => MentionsEmpty(EntryOf(g, i)[1])

\* The call of the generator the review step made, and the call of the
\* publisher the post step made on its output.
WorkflowGen ==
    [impl |-> "handler", shape |-> "json",
     changes |-> Loads(gen.input).v.changes.v, responses |-> gen.responses]

WorkflowPost ==
    [impl |-> "handler", shape |-> "json", reviews |-> gen.out.reviews,
     env |-> post.env]

\* C15: a file with a patch whose inference call fails or gives no usable
\* text gets an entry with status failed, an error message (one that speaks
\* of empty content in the empty-text case) and no review; the execution
\* still ends as DONE after posting, with the file counted in failed_posts.
C15_FailedInferenceStillDone ==
    gen # Idle =>
        /\ FailedEntries(WorkflowGen)
        /\ post # Idle =>
               /\ ~ post.out.raised
               /\ orch = "DONE" /\ record.status = "SUCCEEDED"
               /\ \A i \in Unanswered(WorkflowGen) :
                      ~ PostedAt(WorkflowPost,
                                 Len(PrefixOut(WorkflowGen, i).reviews))
               /\ post.out.tally.failed_posts
                      >= Cardinality(Unanswered(WorkflowGen))

\* C15 witness: an execution with a file whose answer was blank and a file
\* that was reviewed has ended after posting.
C15_Witness ==
    /\ gen # Idle /\ post # Idle /\ orch = "DONE"
    /\ \E i \in Unanswered(WorkflowGen) : EmptyText(gen.responses[i])
    /\ post.out.tally.successful_posts = 1
    /\ post.out.tally.failed_posts = 1

\* C15, both generators called directly (under SpecGenerate).
C15_FailedEntry == GenCalled => ~ gen.out.raised /\ FailedEntries(gen)

---------------------------------------------------------------------------
(* Claims about the source-control credential                              *)

\* The secret lacks the token, or its retrieval fails.
NoCredential(secret) == secret \in {"no_key", "error"}

\* C16: when the credential is absent or its retrieval fails, client
\* initialization fails with an error: the publisher is left with
\* PRReviewError before any lookup, and no comment is posted.
C16_NoClientWithoutCredential ==
    post # Idle /\ NoCredential(post.env.secret) =>
        /\ post.out.raised /\ post.out.exc = "PRReviewError"
        /\ ~ post.out.located
        /\ post.out.posted = <<>>

\* C16 witness: utils.post_review_comments was called without a credential
\* on a list with an entry it would post, for a pull request that exists.
C16_Witness ==
    /\ post # Idle /\ post.impl = "utils" /\ post.shape = "json"
    /\ NoCredential(post.env.secret) /\ post.env.known
    /\ \E i \in DOMAIN post.reviews : Postable(post.reviews[i])

\* C16, the workflow (under Spec): without a credential the step function
\* does not load, so no fetch, review or post runs and the execution fails.
C16_WorkflowStopsWithoutCredential ==
    step # Idle /\ NoCredential(world.secret) =>
        /\ ~ step.loaded
        /\ step.event.action = "fetch_changes"
        /\ orch = "FAILED" /\ record.status = "FAILED"
        /\ gen = Idle /\ post = Idle /\ comments = <<>>

---------------------------------------------------------------------------
(* Claims about the order of the steps, checked under Spec                 *)

\* The step that runs in each state of an execution.
ActionOf(state) ==
    IF state = "FETCHING" THEN "fetch_changes"
    ELSE IF state = "REVIEWING" THEN "generate_review"
    ELSE IF state = "POSTING" THEN "post_comments"
    ELSE "none"

\* The moves of an execution from one state to the next.
Moves ==
    { <<"INIT", "FETCHING">>, <<"FETCHING", "REVIEWING">>,
      <<"REVIEWING", "POSTING">>, <<"POSTING", "DONE">>,
      <<"FETCHING", "FAILED">>, <<"REVIEWING", "FAILED">>,
      <<"POSTING", "FAILED">> }

\* C17: within an execution the steps run in the order fetch, review, post,
\* one at a time: the step that is invoked is the one of the state the
\* execution is in; the review step starts only after the fetch step has
\* succeeded and gets its output, the post step only after the review step
\* has succeeded and gets its output.
C17_StepsInOrder ==
    [][ /\ orch' # orch => <<orch, orch'>> \in Moves
        /\ step' # step =>
              /\ step'.event.action = ActionOf(orch)
              /\ InvokeOk(step') <=> orch' # "FAILED"
              /\ step'.event.action = "fetch_changes" => step = Idle
              /\ step'.event.action = "generate_review" =>
                    /\ step # Idle /\ step.event.action = "fetch_changes"
                    /\ InvokeOk(step)
                    /\ step'.event.changes = step.out.response.body
              /\ step'.event.action = "post_comments" =>
                    /\ step # Idle /\ step.event.action = "generate_review"
                    /\ InvokeOk(step)
                    /\ step'.event.review = step.out.response.body ]_vars

\* C17 witness: the three steps have run and the last one posted a comment.
C17_Witness ==
    /\ orch = "DONE"
    /\ step # Idle /\ step.event.action = "post_comments"
    /\ gen # Idle /\ post # Idle
    /\ comments # <<>>

---------------------------------------------------------------------------
(* Claims about the entries of the Review Generator, under SpecGenerate    *)

\* C18: every entry the generator returns has a status in {succeeded,
\* failed, skipped}, a review exactly when the status is succeeded and an
\* error exactly when it is failed or skipped.
C18_StatusMatchesContent ==
    GenCalled =>
        \A k \in DOMAIN gen.out.reviews :
            /\ WellFormed(gen.out.reviews[k])
            /\ Has(gen.out.reviews[k], "review")
                   => gen.out.reviews[k].review # <<>>

\* C18, utils.py alone: every entry keeps the rule.
C18_UtilsStatusMatchesContent ==
    GenCalled /\ gen.impl = "utils" =>
        \A k \in DOMAIN gen.out.reviews :
            /\ WellFormed(gen.out.reviews[k])
            /\ Has(gen.out.reviews[k], "review")
                   => gen.out.reviews[k].review # <<>>

\* C18, handler.py alone: an entry has either a review that is not empty
\* or an error, and an entry with an error has status failed; an entry
\* with a review has the status of its file.
C18_HandlerReviewOrError ==
    GenCalled /\ gen.impl = "handler" =>
        \A k \in DOMAIN gen.out.reviews :
            LET e == gen.out.reviews[k] IN
            /\ Has(e, "review") <=> ~ Has(e, "error")
            /\ Has(e, "error") => e.status = "failed"
            /\ Has(e, "review") =>
                   /\ e.review # <<>>
                   /\ e.status \in {"modified", "reviewed"}

---------------------------------------------------------------------------
(* Claims about the two publishers side by side, checked under SpecPost    *)

\* The same call made to the other implementation.
Other(p) == [p EXCEPT !.impl = IF p.impl = "utils" THEN "handler" ELSE "utils"]

\* What an implementation gives for the whole list of call p.
PostOut(p) == PostPrefix(p, Len(p.reviews))

\* The two implementations agree on call p: both raise, or both return,
\* with comments for the same entries in the same order and the same
\* successful_posts and failed_posts.
Agree(p) ==
    /\ PostOut(p).raised <=> PostOut(Other(p)).raised
    /\ ~ PostOut(p).raised =>
          /\ \A i \in DOMAIN p.reviews : PostedAt(p, i) <=> PostedAt(Other(p), i)
          /\ PostOut(p).posted = PostOut(Other(p)).posted
          /\ PostOut(p).tally.successful_posts
                 = PostOut(Other(p)).tally.successful_posts
          /\ PostOut(p).tally.failed_posts
                 = PostOut(Other(p)).tally.failed_posts

\* A publisher was called, with its client initialized, on a list of dict
\* entries for which no posting call fails.
DictsNoFailure ==
    /\ post # Idle /\ post.shape # "odd"
    /\ post.env.secret = "ok"
    /\ \A i \in DOMAIN post.reviews : IsDict(post.reviews[i])
    /\ FailingPosts(post) = {}

\* C19 as stated: the two publishers are equivalent on every list of dict
\* entries when no posting call fails, in whatever form the list is handed
\* over.
C19_PublishersEquivalent == DictsNoFailure => Agree(post)

\* C19 as amended: the two publishers are equivalent on every list of dict
\* entries when no posting call fails and the list is handed over as the
\* JSON text of an object that holds it under 'reviews'.
C19_EquivalentOnJsonObject ==
    DictsNoFailure /\ post.shape = "json" =>
        /\ Agree(post)
        /\ post.out = PostOut(post)

\* C19 witness: a list with an entry that is posted and one that is not was
\* handed over as the JSON text of an object, for a pull request that
\* exists.
C19_Witness ==
    /\ DictsNoFailure /\ post.shape = "json" /\ post.env.known
    /\ ~ post.out.raised
    /\ post.out.tally.successful_posts >= 1
    /\ post.out.tally.failed_posts >= 1

====
